---- MODULE Spec2Model ----
(***************************************************************************)
(* RecommenderEngine (src/recommender_engine.py): the load/query lifecycle *)
(* of the engine and its three ranking operations, collaborative_filtering,*)
(* content_based_filtering and hybrid_recommendations, over bounded        *)
(* catalogs and interaction logs.                                          *)
(*                                                                         *)
(* Numbers.  Cosine similarities are IEEE doubles in the source; here they *)
(* are fixed-point integers in 0..Scale.  The hybrid scores (L-i)*0.6 and  *)
(* (L-j)*0.4 are kept as exact tenths together with the rounding error of  *)
(* the double computation (in ulps), so that two scores are equal here     *)
(* exactly when the doubles are equal.                                     *)
(*                                                                         *)
(* Order.  Where the source leaves an order to the implementation (the     *)
(* position of equal keys after Series.sort_values and ndarray.argsort,    *)
(* both quicksort by default, and the iteration order of a set), every     *)
(* admissible order is an outcome of the operation.                        *)
(***************************************************************************)
EXTENDS Integers, Sequences, FiniteSets, TLC

\* ---------------------------------------------------------------- bounds
MaxUser == 2        \* user ids of queries and of exhaustive log rows: 1..MaxUser
MaxN == 4           \* n_recommendations of a query is 0..MaxN
MaxLog == 2         \* exhaustive interaction logs have at most this many rows
MaxLogProduct == 2  \* product ids in the rows of exhaustive logs
MaxProductId == 2   \* product ids asked of get_product_details: 1..MaxProductId
Scale == 100        \* fixed-point denominator of a cosine similarity

\* ------------------------------------------------------------- arithmetic
Min(a, b) == IF a < b THEN a ELSE b

RECURSIVE Gcd(_, _)
Gcd(a, b) == IF b = 0 THEN a ELSE Gcd(b, a % b)

Lcm(a, b) == (a * b) \div Gcd(a, b)

RECURSIVE SumOver(_, _)
\* sum of f[x] over the finite set S
SumOver(S, f) ==
    IF S = {} THEN 0
    ELSE LET x == CHOOSE y \in S : TRUE IN f[x] + SumOver(S \ {x}, f)

RECURSIVE LcmOver(_, _)
LcmOver(S, f) ==
    IF S = {} THEN 1
    ELSE LET x == CHOOSE y \in S : TRUE IN Lcm(f[x], LcmOver(S \ {x}, f))

RECURSIVE SqrtBetween(_, _, _)
\* the largest r in lo..hi with r * r <= x, given lo * lo <= x
SqrtBetween(x, lo, hi) ==
    IF lo >= hi THEN lo
    ELSE LET mid == (lo + hi + 1) \div 2
         IN  IF mid * mid <= x THEN SqrtBetween(x, mid, hi)
             ELSE SqrtBetween(x, lo, mid - 1)

ISqrt(x) == SqrtBetween(x, 0, Min(x, 46340))

\* the function f as a table, every value computed once
Table(f) == f @@ <<>>

\* ------------------------------------------------------------- sequences
Range(s) == {s[i] : i \in 1..Len(s)}

Take(s, n) == SubSeq(s, 1, Min(n, Len(s)))

IndexOf(s, x) == CHOOSE i \in 1..Len(s) : s[i] = x

RECURSIVE Unique(_)
\* Series.unique(): the distinct values in order of first appearance
Unique(s) ==
    IF s = <<>> THEN <<>>
    ELSE LET front == Unique(SubSeq(s, 1, Len(s) - 1))
             last == s[Len(s)]
         IN  IF last \in Range(front) THEN front ELSE Append(front, last)

RECURSIVE Orders(_)
\* every sequence that lists the elements of S once each
Orders(S) ==
    IF S = {} THEN {<<>>}
    ELSE UNION {{<<x>> \o rest : rest \in Orders(S \ {x})} : x \in S}

RECURSIVE SortedAscending(_, _)
\* every arrangement of S in ascending key order; equal keys in any order
SortedAscending(S, key) ==
    IF S = {} THEN {<<>>}
    ELSE UNION {{<<x>> \o rest : rest \in SortedAscending(S \ {x}, key)} :
                x \in {y \in S : \A z \in S : key[y] <= key[z]}}

RECURSIVE SortedDescending(_, _)
\* every arrangement of S in descending key order; equal keys in any order
SortedDescending(S, key) ==
    IF S = {} THEN {<<>>}
    ELSE UNION {{<<x>> \o rest : rest \in SortedDescending(S \ {x}, key)} :
                x \in {y \in S : \A z \in S : key[y] >= key[z]}}

RECURSIVE StableSortDescending(_, _)
\* sorted(items, key=..., reverse=True): descending key order, equal keys
\* keep the order they have in s
StableSortDescending(s, key) ==
    IF s = <<>> THEN <<>>
    ELSE LET best == CHOOSE i \in 1..Len(s) :
                        /\ \A j \in 1..Len(s) : key[s[i]] >= key[s[j]]
                        /\ \A j \in 1..(i - 1) : key[s[j]] < key[s[i]]
             rest == SubSeq(s, 1, best - 1) \o SubSeq(s, best + 1, Len(s))
         IN  <<s[best]>> \o StableSortDescending(rest, key)

\* ---------------------------------------------------------------- cosine
\* sklearn cosine_similarity of two rows over the columns Cols: the dot
\* product of the l2-normalised rows; a zero row stays zero when normalised
Cosine(a, b, Cols) ==
    LET dot == SumOver(Cols, [c \in Cols |-> a[c] * b[c]])
        na == SumOver(Cols, [c \in Cols |-> a[c] * a[c]])
        nb == SumOver(Cols, [c \in Cols |-> b[c] * b[c]])
    IN  IF na = 0 \/ nb = 0 THEN 0
        ELSE ISqrt((Scale * Scale * dot * dot) \div (na * nb))

\* ------------------------------------------------------------ data model
\* a row of the products table (Product of the data model); ids are 1-based
\* and dense, row i of products_df holds the product with id i
Product(id, text) ==
    [id |-> id, category |-> text[1], description |-> text[2],
     price |-> 10 * id, rating |-> 1 + (id % 5)]

\* a row of the interactions table
Interaction(user, product, type, rating) ==
    [user_id |-> user, product_id |-> product,
     interaction_type |-> type, rating |-> rating]

\* the rows of the short logs: a view (its rating is not read) or a
\* purchase rated 0 or 1
ExhaustiveRows ==
    {Interaction(u, p, "view", 0) : u \in 1..MaxUser, p \in 1..MaxLogProduct}
    \cup {Interaction(u, p, "purchase", r) :
            u \in 1..MaxUser, p \in 1..MaxLogProduct, r \in {0, 1}}

ExhaustiveLogs == UNION {[1..k -> ExhaustiveRows] : k \in 0..MaxLog}

\* a catalog of five products and a purchase log of three users
ScenarioCatalog ==
    <<Product(1, <<"books", "">>), Product(2, <<"books", "toys">>),
      Product(3, <<"toys", "">>), Product(4, <<"books", "toys">>),
      Product(5, <<"toys", "toys">>)>>

ScenarioLog ==
    <<Interaction(1, 1, "purchase", 2), Interaction(2, 1, "purchase", 2),
      Interaction(2, 5, "purchase", 2), Interaction(3, 1, "purchase", 2),
      Interaction(3, 5, "purchase", 1), Interaction(3, 3, "purchase", 2),
      Interaction(1, 2, "purchase", 0), Interaction(3, 2, "purchase", 1),
      Interaction(3, 3, "purchase", 1)>>

\* the first k products of ScenarioCatalog, k in lengths
Catalogs(lengths) == {SubSeq(ScenarioCatalog, 1, k) : k \in lengths}

\* the first k rows of ScenarioLog
ScenarioLogs == {SubSeq(ScenarioLog, 1, k) : k \in 0..Len(ScenarioLog)}

\* the contents of the database that load_data may read: every short log
\* with the catalogs of up to three products, the scenario logs with all
Databases ==
    (Catalogs(0..3) \X ExhaustiveLogs)
    \cup (Catalogs(0..Len(ScenarioCatalog)) \X ScenarioLogs)

\* ------------------------------------------------------------------ state
VARIABLES
    pc,                \* "new" before __init__ has run, "ready" after it
    is_none,           \* products_df and interactions_df are None
    products_df,       \* rows of the Catalog (sequence of Product)
    products_columns,  \* column labels of products_df
    interactions_df,   \* rows of the InteractionLog (sequence of Interaction)
    load_failed,       \* load_data took its except branch
    op,                \* the operation called last ("" before any call)
    arg_user,          \* its user_id (0 when it takes none)
    arg_n,             \* its n_recommendations (0 when it takes none)
    raised,            \* the exception it raised ("" when it returned)
    result,            \* the list (or the rows of the frame) it returned
    stats,             \* the dict get_statistics returned
    locals             \* locals of the last call that the properties read

vars == <<pc, is_none, products_df, products_columns, interactions_df,
          load_failed, op, arg_user, arg_n, raised, result, stats, locals>>

data == <<pc, is_none, products_df, interactions_df, load_failed>>

TableColumns == {"id", "category", "description", "price", "rating"}

NoStats == [total_products |-> 0, total_users |-> 0, total_interactions |-> 0,
            total_purchases |-> 0, categories |-> <<>>, avg_rating |-> <<0, 1>>,
            price_range |-> [min |-> 0, max |-> 0, avg |-> <<0, 1>>]]

NoLocals == [similar_users |-> <<>>, similarity |-> <<>>,
             collab_recs |-> <<>>, content_recs |-> <<>>, all_recs |-> <<>>,
             user_product_matrix |-> <<>>, product_ids |-> <<>>]

\* __init__ up to the call of load_data (lines 25-27)
Init ==
    /\ pc = "new"
    /\ is_none = TRUE
    /\ products_df = <<>>
    /\ products_columns = {}
    /\ interactions_df = <<>>
    /\ load_failed = FALSE
    /\ op = ""
    /\ arg_user = 0
    /\ arg_n = 0
    /\ raised = ""
    /\ result = <<>>
    /\ stats = NoStats
    /\ locals = NoLocals

\* load_data, try branch: both tables read
LoadOk(db) ==
    /\ is_none' = FALSE
    /\ products_df' = db[1]
    /\ products_columns' = TableColumns
    /\ interactions_df' = db[2]
    /\ load_failed' = FALSE

\* load_data whose except branch assigns nothing: the frames stay None
LoadFailedKeepsNone ==
    /\ is_none' = TRUE
    /\ products_df' = <<>>
    /\ products_columns' = {}
    /\ interactions_df' = <<>>
    /\ load_failed' = TRUE

\* load_data, except branch: connect or either read failed, both frames
\* become empty DataFrames without columns
LoadFailed ==
    /\ is_none' = FALSE
    /\ products_df' = <<>>
    /\ products_columns' = {}
    /\ interactions_df' = <<>>
    /\ load_failed' = TRUE

load_data == (\E db \in Databases : LoadOk(db)) \/ LoadFailed

\* RecommenderEngine(): __init__ ends with load_data
Construct ==
    /\ pc = "new"
    /\ pc' = "ready"
    /\ load_data
    /\ UNCHANGED <<op, arg_user, arg_n, raised, result, stats, locals>>

\* ------------------------------------------------ collaborative_filtering
IsPurchase(row) == row.interaction_type = "purchase"

\* interactions_df[interaction_type == 'purchase'] (lines 55-57)
PurchaseData(idf) == SelectSeq(idf, IsPurchase)

\* index and columns of the pivot table: the users and the products of the
\* purchase rows
MatrixIndex(pd) == {pd[i].user_id : i \in 1..Len(pd)}

MatrixColumns(pd) == {pd[i].product_id : i \in 1..Len(pd)}

\* positions in pd of the purchases of product p by user u
PairRows(pd, u, p) ==
    {i \in 1..Len(pd) : pd[i].user_id = u /\ pd[i].product_id = p}

\* common denominator of the cells: every cell is a mean over its rows
CellDenominator(pd) ==
    LET pairs == {<<pd[i].user_id, pd[i].product_id>> : i \in 1..Len(pd)}
    IN  LcmOver(pairs, [q \in pairs |-> Cardinality(PairRows(pd, q[1], q[2]))])

\* one cell of pivot_table(values='rating', fill_value=0): aggfunc defaults
\* to the mean of the ratings of the pair, a pair without rows is filled
\* with 0.  Cells are multiplied by a common denominator to stay integers;
\* cosine similarity does not change when the whole matrix is scaled.
MatrixCell(pd, u, p, denominator) ==
    LET rows == PairRows(pd, u, p)
    IN  IF rows = {} THEN 0
        ELSE (SumOver(rows, [i \in rows |-> pd[i].rating]) * denominator)
                 \div Cardinality(rows)

\* user_product_matrix (lines 62-67)
UserProductMatrix(pd) ==
    LET denominator == CellDenominator(pd)
    IN  Table([u \in MatrixIndex(pd) |->
            Table([p \in MatrixColumns(pd) |-> MatrixCell(pd, u, p, denominator)])])

\* the column user_similarity_df[user_id] (lines 72-79)
UserSimilarity(pd, matrix, user_id) ==
    Table([v \in MatrixIndex(pd) |->
             Cosine(matrix[user_id], matrix[v], MatrixColumns(pd))])

\* sort_values(ascending=False)[1:6]: the sorted labels without the first
\* one, at most five of them (line 79)
SimilarUsers(sorted) == SubSeq(sorted, 2, Min(6, Len(sorted)))

\* columns[matrix.loc[user] > 0] (lines 80, 84-86)
ProductsOf(pd, matrix, user) == {p \in MatrixColumns(pd) : matrix[user][p] > 0}

\* new_products of every user taken as the similar user (line 87)
NewProducts(pd, matrix, user_id) ==
    Table([v \in MatrixIndex(pd) |->
             ProductsOf(pd, matrix, v) \ ProductsOf(pd, matrix, user_id)])

RECURSIVE InsertionOrders(_, _, _, _)
\* the orders in which product ids can become keys of the recommendations
\* dict (lines 82-92): similar users in sequence, the new products of one
\* similar user in the iteration order of a set
InsertionOrders(new_products, similar_users, i, seen) ==
    IF i > Len(similar_users) THEN {<<>>}
    ELSE LET fresh == new_products[similar_users[i]] \ seen
         IN  {front \o rest :
                front \in Orders(fresh),
                rest \in InsertionOrders(new_products, similar_users, i + 1,
                                         seen \cup fresh)}

\* recommendations[product_id] after the loop: the similarity scores of the
\* similar users that have the product among their new products, summed
Weight(new_products, similar_users, similarity, product_id) ==
    LET owners == {i \in 1..Len(similar_users) :
                     product_id \in new_products[similar_users[i]]}
    IN  SumOver(owners, [i \in owners |-> similarity[similar_users[i]]])

\* line 94: the items of the dict by descending weight, equal weights in
\* insertion order
TopProducts(new_products, similar_users, similarity, inserted) ==
    LET weight == Table([p \in Range(inserted) |->
                     Weight(new_products, similar_users, similarity, p)])
    IN  StableSortDescending(inserted, weight)

\* what a call that reaches line 72 can compute: the similar users, the
\* similarity column and top_products
RankedOutcomes(pd, user_id) ==
    LET matrix == UserProductMatrix(pd)
        similarity == UserSimilarity(pd, matrix, user_id)
        new_products == NewProducts(pd, matrix, user_id)
    IN  UNION {
          {[similar_users |-> SimilarUsers(sorted),
            similarity |-> similarity,
            user_product_matrix |-> matrix,
            top_products |-> TopProducts(new_products, SimilarUsers(sorted),
                                         similarity, inserted)] :
             inserted \in InsertionOrders(new_products, SimilarUsers(sorted), 1, {})} :
          sorted \in SortedDescending(MatrixIndex(pd), similarity)}

NotRanked == [similar_users |-> <<>>, similarity |-> <<>>, top_products |-> <<>>,
              user_product_matrix |-> <<>>]

\* collaborative_filtering up to line 94: the early returns of lines 52-53,
\* 59-60 and 69-70, then the ranking
CollaborativeOutcomes(idf, user_id) ==
    LET pd == PurchaseData(idf)
    IN  IF Len(idf) = 0 THEN {NotRanked}
        ELSE IF Len(pd) = 0 THEN {NotRanked}
        ELSE IF user_id \notin MatrixIndex(pd)
             THEN {[NotRanked EXCEPT !.user_product_matrix = UserProductMatrix(pd)]}
        ELSE RankedOutcomes(pd, user_id)

\* line 95 (and 133, 151): the slice [:n_recommendations]
FirstN(list, n) == Take(list, n)

\* len(None) raises TypeError: the frames were never assigned
RaisesTypeError ==
    /\ is_none
    /\ raised' = "TypeError"
    /\ result' = <<>>
    /\ locals' = NoLocals
    /\ UNCHANGED <<stats, products_columns>>

collaborative_filtering(user_id) ==
    /\ pc = "ready"
    /\ op' = "collaborative_filtering"
    /\ arg_user' = user_id
    /\ \/ /\ RaisesTypeError
          /\ arg_n' \in 0..MaxN
       \/ /\ ~is_none
          /\ \E out \in CollaborativeOutcomes(interactions_df, user_id) :
                /\ locals' = [NoLocals EXCEPT
                                !.similar_users = out.similar_users,
                                !.similarity = out.similarity,
                                !.user_product_matrix = out.user_product_matrix]
                /\ \E n \in 0..MaxN :
                      /\ arg_n' = n
                      /\ result' = FirstN(out.top_products, n)
          /\ raised' = ""
          /\ UNCHANGED <<stats, products_columns>>
    /\ UNCHANGED data

\* ------------------------------------------------ content_based_filtering
\* product ids of the rows of one user and one interaction type, distinct,
\* in order of first appearance (lines 102-105 and 108-111)
ProductsOfUser(idf, user_id, type) ==
    LET Mine(row) == row.user_id = user_id /\ row.interaction_type = type
        rows == SelectSeq(idf, Mine)
    IN  Unique([i \in 1..Len(rows) |-> rows[i].product_id])

DefaultSeeds == <<1, 2, 3>>

\* the seeds without the fallback to [1, 2, 3]
SeedsWithoutDefault(idf, user_id) ==
    LET user_purchases == ProductsOfUser(idf, user_id, "purchase")
        user_views == ProductsOfUser(idf, user_id, "view")
    IN  IF Len(user_purchases) = 0 THEN Take(user_views, 3) ELSE user_purchases

\* user_purchases after line 112: the purchases, else the first three
\* views, else [1, 2, 3]
Seeds(idf, user_id) ==
    LET user_purchases == ProductsOfUser(idf, user_id, "purchase")
        user_views == ProductsOfUser(idf, user_id, "view")
    IN  IF Len(user_purchases) = 0
        THEN IF Len(user_views) > 0 THEN Take(user_views, 3) ELSE DefaultSeeds
        ELSE user_purchases

\* the words of the catalog texts; "" is a text without words
Vocabulary == {"books", "toys"}

\* a row of tfidf_matrix (lines 114-120): the weight of every word in
\* category + ' ' + description.  A word weighs the number of times it
\* occurs; the idf factor of TfidfVectorizer is left out.
TfidfRow(product) ==
    Table([w \in Vocabulary |->
             (IF product.category = w THEN 1 ELSE 0)
             + (IF product.description = w THEN 1 ELSE 0)])

\* content_similarity (line 121), rows and columns counted from 1
ContentSimilarity(pdf) ==
    Table([i \in 1..Len(pdf) |->
        Table([j \in 1..Len(pdf) |->
            Cosine(TfidfRow(pdf[i]), TfidfRow(pdf[j]), Vocabulary)])])

\* argsort()[-6:-1][::-1] of one row (line 126): of the positions in
\* ascending similarity, the last is left out and the (up to) five before
\* it are taken, highest first
SimilarIndices(ascending) ==
    LET count == Len(ascending)
    IN  [k \in 1..Min(5, count - 1) |-> ascending[count - k]]

\* the sets that lines 128-131 can add for one seed
SimilarProducts(pdf, similarity, seeds, product_id) ==
    {{pdf[idx].id : idx \in Range(SimilarIndices(ascending))} \ Range(seeds) :
        ascending \in SortedAscending(1..Len(pdf), similarity[product_id])}

RECURSIVE RecommendationSets(_, _, _, _)
\* the values the recommendations set can have after the seeds from the
\* i-th on have been processed (lines 123-131)
RecommendationSets(pdf, similarity, seeds, i) ==
    IF i > Len(seeds) THEN {{}}
    ELSE {mine \cup later :
            mine \in SimilarProducts(pdf, similarity, seeds, seeds[i]),
            later \in RecommendationSets(pdf, similarity, seeds, i + 1)}

\* line 125-126: product_id - 1 indexes content_similarity, IndexError when
\* it is not a row of the matrix (ids are at least 1)
SeedOutOfRange(pdf, seeds) == \E i \in 1..Len(seeds) : seeds[i] > Len(pdf)

\* content_based_filtering up to the slice of line 133: whether the frame
\* got its content column, the exception, and list(recommendations) in
\* every iteration order of the set
ContentOutcome(pdf, idf, user_id) ==
    IF Len(pdf) = 0 \/ Len(idf) = 0
    THEN [mutated |-> FALSE, raised |-> "", lists |-> {<<>>}]
    ELSE LET seeds == Seeds(idf, user_id)
         IN  IF SeedOutOfRange(pdf, seeds)
             THEN [mutated |-> TRUE, raised |-> "IndexError", lists |-> {<<>>}]
             ELSE [mutated |-> TRUE, raised |-> "",
                   lists |-> UNION {Orders(recommendations) :
                      recommendations \in
                        RecommendationSets(pdf, ContentSimilarity(pdf), seeds, 1)}]

\* products_df['content'] = ... (lines 114-117) adds a column to the frame
ColumnsAfter(mutated) ==
    IF mutated THEN products_columns \cup {"content"} ELSE products_columns

content_based_filtering(user_id) ==
    /\ pc = "ready"
    /\ op' = "content_based_filtering"
    /\ arg_user' = user_id
    /\ \/ /\ RaisesTypeError
          /\ arg_n' \in 0..MaxN
       \/ /\ ~is_none
          /\ \E out \in {ContentOutcome(products_df, interactions_df, user_id)} :
                /\ raised' = out.raised
                /\ products_columns' = ColumnsAfter(out.mutated)
                /\ locals' = NoLocals
                /\ \E n \in 0..MaxN :
                      /\ arg_n' = n
                      /\ result' \in {FirstN(list, n) : list \in out.lists}
          /\ UNCHANGED stats
    /\ UNCHANGED data

\* ------------------------------------------------- hybrid_recommendations
\* Rounding error, in ulps, of the double computed for a * 0.6 + b * 0.4
\* (a * 0.6 alone when b = 0, b * 0.4 alone when a = 0) against the double
\* nearest to the exact value (6a + 4b) / 10; row a + 1, column b + 1
RoundOff ==
    <<<< 0,  0,  0,  1,  0,  0,  1,  1>>,
      << 0,  0,  0,  1,  0,  0,  1,  1>>,
      << 0,  0,  0,  1,  0,  0,  1,  0>>,
      <<-1, -1, -1,  0,  0,  0,  0,  0>>,
      << 0,  0,  0,  0,  0,  0,  1,  0>>,
      << 0,  0,  0,  0,  0,  0,  0,  1>>,
      <<-1,  0, -1,  0, -1,  0,  0,  0>>,
      << 0,  1,  0,  0,  1,  0,  1,  0>>>>

\* the double a * 0.6 + b * 0.4 as an integer that orders as the doubles
\* do: four times the exact tenths, plus the rounding error
FloatScore(a, b) ==
    4 * (6 * a + 4 * b)
    + (IF a < Len(RoundOff) /\ b < Len(RoundOff) THEN RoundOff[a + 1][b + 1] ELSE 0)

\* the exact tenths of a score
Tenths(score) == (score + 1) \div 4

\* (len(collab_recs) - i) * 0.6 (line 142)
CollabScore(k) == FloatScore(k, 0)

\* (len(content_recs) - i) * 0.4 (lines 146 and 148)
ContentScore(k) == FloatScore(0, k)

\* all_recs[product_id] += score (line 146): a collaborative score plus a
\* content score
AddScore(collab_score, content_score) ==
    FloatScore(Tenths(collab_score) \div 6, Tenths(content_score) \div 4)

\* a dict: its keys in insertion order and the value of every key
EmptyDict == [keys |-> <<>>, value |-> <<>>]

HasKey(dict, k) == k \in Range(dict.keys)

\* dict[k] = v
SetItem(dict, k, v) ==
    [keys |-> IF HasKey(dict, k) THEN dict.keys ELSE Append(dict.keys, k),
     value |-> Table([x \in Range(dict.keys) \cup {k} |->
                        IF x = k THEN v ELSE dict.value[x]])]

RECURSIVE CollabLoop(_, _, _)
\* lines 141-142 from the i-th entry (counted from 1) on
CollabLoop(collab_recs, i, all_recs) ==
    IF i > Len(collab_recs) THEN all_recs
    ELSE CollabLoop(collab_recs, i + 1,
            SetItem(all_recs, collab_recs[i],
                    CollabScore(Len(collab_recs) - (i - 1))))

\* lines 145-148 with = in the place of +=
ContentStepOverwrite(all_recs, product_id, score) ==
    SetItem(all_recs, product_id, score)

\* lines 145-148 for one entry of content_recs
ContentStep(all_recs, product_id, score) ==
    IF HasKey(all_recs, product_id)
    THEN SetItem(all_recs, product_id, AddScore(all_recs.value[product_id], score))
    ELSE SetItem(all_recs, product_id, score)

RECURSIVE ContentLoop(_, _, _)
\* lines 144-148 from the i-th entry (counted from 1) on
ContentLoop(content_recs, i, all_recs) ==
    IF i > Len(content_recs) THEN all_recs
    ELSE ContentLoop(content_recs, i + 1,
            ContentStep(all_recs, content_recs[i],
                        ContentScore(Len(content_recs) - (i - 1))))

\* all_recs after both loops (lines 140-148)
AllRecs(collab_recs, content_recs) ==
    ContentLoop(content_recs, 1, CollabLoop(collab_recs, 1, EmptyDict))

\* sorted_recs (line 150): the items by descending score, equal scores in
\* insertion order
SortedRecs(all_recs) == StableSortDescending(all_recs.keys, all_recs.value)

\* the locals and the return value of lines 140-151
Fuse(collab_recs, content_recs, n) ==
    LET all_recs == AllRecs(collab_recs, content_recs)
    IN  [collab_recs |-> collab_recs, content_recs |-> content_recs,
         all_recs |-> all_recs.value,
         result |-> FirstN(SortedRecs(all_recs), n)]

hybrid_recommendations(user_id) ==
    /\ pc = "ready"
    /\ op' = "hybrid_recommendations"
    /\ arg_user' = user_id
    /\ \/ /\ RaisesTypeError
          /\ arg_n' \in 0..MaxN
       \/ /\ ~is_none
          /\ \E collab \in {CollaborativeOutcomes(interactions_df, user_id)},
                content \in {ContentOutcome(products_df, interactions_df, user_id)} :
                /\ raised' = content.raised
                /\ products_columns' = ColumnsAfter(content.mutated)
                /\ \E n \in 0..MaxN :
                      /\ arg_n' = n
                      /\ \/ /\ content.raised # ""
                            /\ result' = <<>>
                            /\ locals' = NoLocals
                         \/ /\ content.raised = ""
                            /\ \E fused \in
                                  {Fuse(FirstN(out.top_products, n), FirstN(list, n), n) :
                                     out \in collab, list \in content.lists} :
                                  /\ result' = fused.result
                                  /\ locals' = [NoLocals EXCEPT
                                        !.collab_recs = fused.collab_recs,
                                        !.content_recs = fused.content_recs,
                                        !.all_recs = fused.all_recs]
          /\ UNCHANGED stats
    /\ UNCHANGED data

\* ----------------------------------------------------------- get_statistics
\* a mean as the pair <<sum, count>> of the values of a column
Mean(values) ==
    <<SumOver(1..Len(values), [i \in 1..Len(values) |-> values[i]]), Len(values)>>

\* lines 175-189
Statistics(pdf, idf) ==
    [total_products |-> Len(pdf),
     total_users |-> Cardinality({idf[i].user_id : i \in 1..Len(idf)}),
     total_interactions |-> Len(idf),
     total_purchases |-> Len(PurchaseData(idf)),
     categories |-> Unique([i \in 1..Len(pdf) |-> pdf[i].category]),
     avg_rating |-> Mean([i \in 1..Len(pdf) |-> pdf[i].rating]),
     price_range |->
        [min |-> CHOOSE x \in {pdf[i].price : i \in 1..Len(pdf)} :
                    \A i \in 1..Len(pdf) : x <= pdf[i].price,
         max |-> CHOOSE x \in {pdf[i].price : i \in 1..Len(pdf)} :
                    \A i \in 1..Len(pdf) : x >= pdf[i].price,
         avg |-> Mean([i \in 1..Len(pdf) |-> pdf[i].price])]]

get_statistics ==
    /\ pc = "ready"
    /\ op' = "get_statistics"
    /\ arg_user' = 0
    /\ arg_n' = 0
    /\ result' = <<>>
    /\ locals' = NoLocals
    /\ IF is_none
       THEN /\ raised' = "TypeError"
            /\ stats' = NoStats
       ELSE /\ raised' = ""
            /\ stats' = IF Len(products_df) = 0 \/ Len(interactions_df) = 0
                        THEN NoStats
                        ELSE Statistics(products_df, interactions_df)
    /\ UNCHANGED <<data, products_columns>>

\* --------------------------------------------------------- get_user_history
\* interactions_df[interactions_df['user_id'] == user_id] (line 48)
UserHistory(idf, user_id) ==
    LET OfUser(row) == row.user_id = user_id
    IN  SelectSeq(idf, OfUser)

\* lines 44-48: None and the empty frame both give an empty frame
get_user_history(user_id) ==
    /\ pc = "ready"
    /\ op' = "get_user_history"
    /\ arg_user' = user_id
    /\ arg_n' = 0
    /\ raised' = ""
    /\ result' = IF is_none \/ Len(interactions_df) = 0 THEN <<>>
                 ELSE UserHistory(interactions_df, user_id)
    /\ locals' = NoLocals
    /\ UNCHANGED <<data, products_columns, stats>>

\* ------------------------------------------------------ get_product_details
\* the lists of product ids a caller passes: every order of every set of
\* ids of 1..MaxProductId
ProductIdLists == UNION {Orders(ids) : ids \in SUBSET (1..MaxProductId)}

\* one dict of to_dict('records'): a key for every column of the frame; the
\* content column of lines 114-117 holds category + ' ' + description
ProductRecord(product, columns) ==
    IF "content" \in columns
    THEN [id |-> product.id, category |-> product.category,
          description |-> product.description, price |-> product.price,
          rating |-> product.rating,
          content |-> product.category \o " " \o product.description]
    ELSE product

\* products_df[products_df['id'].isin(product_ids)].to_dict('records')
\* (lines 159-160): the rows in the order of the frame
ProductDetails(pdf, columns, product_ids) ==
    LET Asked(product) == product.id \in Range(product_ids)
        products == SelectSeq(pdf, Asked)
    IN  [i \in 1..Len(products) |-> ProductRecord(products[i], columns)]

\* lines 153-160; product_ids = None is the case is_list = FALSE.  A frame
\* without an id column (the empty frame of a failed load) raises KeyError
\* at line 159.
get_product_details(is_list, product_ids) ==
    /\ pc = "ready"
    /\ op' = "get_product_details"
    /\ arg_user' = 0
    /\ arg_n' = 0
    /\ locals' = [NoLocals EXCEPT !.product_ids = product_ids]
    /\ IF ~is_list \/ Len(product_ids) = 0
       THEN /\ raised' = ""
            /\ result' = <<>>
       ELSE IF is_none
       THEN /\ raised' = "TypeError"
            /\ result' = <<>>
       ELSE IF "id" \notin products_columns
       THEN /\ raised' = "KeyError"
            /\ result' = <<>>
       ELSE /\ raised' = ""
            /\ result' = ProductDetails(products_df, products_columns, product_ids)
    /\ UNCHANGED <<data, products_columns, stats>>

Next ==
    \/ Construct
    \/ \E u \in 1..MaxUser : collaborative_filtering(u)
    \/ \E u \in 1..MaxUser : content_based_filtering(u)
    \/ \E u \in 1..MaxUser : hybrid_recommendations(u)
    \/ get_statistics
    \/ \E u \in 1..MaxUser : get_user_history(u)
    \/ \E ids \in ProductIdLists : get_product_details(TRUE, ids)
    \/ get_product_details(FALSE, <<>>)

Spec == Init /\ [][Next]_vars

\* ------------------------------------------------------------- properties
RankingOps ==
    {"collaborative_filtering", "content_based_filtering", "hybrid_recommendations"}

\* the last call was a ranking operation that returned
Returned(operation) == pc = "ready" /\ op = operation /\ raised = ""

NoDuplicates(list) == \A i, j \in 1..Len(list) : list[i] = list[j] => i = j

RECURSIVE Ascending(_)
\* the elements of a set of numbers, smallest first
Ascending(S) ==
    IF S = {} THEN <<>>
    ELSE LET least == CHOOSE x \in S : \A y \in S : x <= y
         IN  <<least>> \o Ascending(S \ {least})

\* the user has no row in the interaction log
HasNoRows(user_id) ==
    \A i \in 1..Len(interactions_df) : interactions_df[i].user_id # user_id

\* the user has a purchase row of the product, whatever its rating
HasPurchased(user_id, product_id) ==
    \E i \in 1..Len(interactions_df) :
        /\ interactions_df[i].user_id = user_id
        /\ interactions_df[i].product_id = product_id
        /\ interactions_df[i].interaction_type = "purchase"

\* the last collaborative_filtering call got as far as its similarity column
Ranked ==
    /\ Returned("collaborative_filtering")
    /\ arg_user \in MatrixIndex(PurchaseData(interactions_df))

\* the score the claim gives a product of a hybrid call, from its positions
\* in the two lists
PositionalScore(product_id) ==
    LET collab == locals.collab_recs
        content == locals.content_recs
        from_collab == CollabScore(Len(collab) - (IndexOf(collab, product_id) - 1))
        from_content == ContentScore(Len(content) - (IndexOf(content, product_id) - 1))
    IN  IF product_id \in Range(collab) /\ product_id \in Range(content)
        THEN AddScore(from_collab, from_content)
        ELSE IF product_id \in Range(collab) THEN from_collab ELSE from_content

\* C1: hybrid_recommendations(u, n) returns at most n ids, all of them from
\* the two lists, and the total score of every id of the two lists is its
\* positional score in the one list it is in, or the sum of its two
\* positional scores when it is in both
C1_HybridScores ==
    Returned("hybrid_recommendations") =>
        /\ Len(result) <= arg_n
        /\ DOMAIN locals.all_recs = Range(locals.collab_recs) \cup Range(locals.content_recs)
        /\ Range(result) \subseteq DOMAIN locals.all_recs
        /\ \A id \in DOMAIN locals.all_recs : locals.all_recs[id] = PositionalScore(id)

\* a hybrid call returned a product that is in both lists
C1_Witness ==
    /\ Returned("hybrid_recommendations")
    /\ \E id \in Range(result) :
          id \in Range(locals.collab_recs) /\ id \in Range(locals.content_recs)
    /\ \E id \in Range(result) : id \notin Range(locals.collab_recs)
    /\ \E id \in Range(result) : id \notin Range(locals.content_recs)

\* C2: the list hybrid_recommendations returns is the first n entries of
\* the fused products in descending total score, equal scores in ascending
\* product id
C2_HybridOrder ==
    Returned("hybrid_recommendations") =>
        result = FirstN(StableSortDescending(Ascending(DOMAIN locals.all_recs),
                                             locals.all_recs), arg_n)

C4_IsolatedUserEmpty ==
    (/\ Ranked
     /\ \A v \in DOMAIN locals.similarity :
           v # arg_user =>
              /\ locals.similarity[v] = 0
              /\ \A i \in 1..Len(interactions_df) :
                    ~(/\ HasPurchased(arg_user, interactions_df[i].product_id)
                      /\ HasPurchased(v, interactions_df[i].product_id)))
        => result = <<>>

\* C5: the list collaborative_filtering returns has no product twice and no
\* product the user has a purchase row of, whatever the rating of the row
C5_CollaborativeFresh ==
    Returned("collaborative_filtering") =>
        /\ NoDuplicates(result)
        /\ \A i \in 1..Len(result) : ~HasPurchased(arg_user, result[i])

RECURSIVE AccumulationOrders(_, _, _, _, _)
\* the lists the claim allows for the seeds from the i-th on: every seed
\* adds its similar products, most similar first, a product stays where it
\* was first seen
AccumulationOrders(pdf, similarity, seeds, i, seen) ==
    IF i > Len(seeds) THEN {seen}
    ELSE UNION {
           LET NotSeen(id) == id \notin Range(seen) /\ id \notin Range(seeds)
               indices == SimilarIndices(ascending)
               ids == [k \in 1..Len(indices) |-> pdf[indices[k]].id]
           IN  AccumulationOrders(pdf, similarity, seeds, i + 1,
                                  seen \o SelectSeq(ids, NotSeen)) :
           ascending \in SortedAscending(1..Len(pdf), similarity[seeds[i]])}

\* C6: content_based_filtering returns the first n entries of the
\* accumulation order
C6_ContentAccumulationOrder ==
    (/\ Returned("content_based_filtering")
     /\ Len(products_df) > 0
     /\ Len(interactions_df) > 0)
        => result \in
              {FirstN(list, arg_n) :
                 list \in AccumulationOrders(products_df,
                            ContentSimilarity(products_df),
                            Seeds(interactions_df, arg_user), 1, <<>>)}

\* C7: a ranking operation called again with the same user and n, the data
\* unchanged, returns the same list
C7_Deterministic ==
    [][(/\ pc = "ready"
        /\ op \in RankingOps
        /\ op' = op /\ arg_user' = arg_user /\ arg_n' = arg_n
        /\ raised = "" /\ raised' = ""
        /\ products_df' = products_df /\ interactions_df' = interactions_df)
         => result' = result]_vars

\* C8: no ranking operation raises on a loaded catalog and log
C8_NeverRaises ==
    pc = "ready" /\ op \in RankingOps => raised = ""

\* C9: no operation runs before the engine is constructed and its frames are
\* assigned; after a failed load both frames are empty, every ranking
\* operation returns the empty list and get_statistics the zero defaults
C9_LoadLifecycle ==
    /\ op # "" => pc = "ready" /\ ~is_none
    /\ pc = "ready" /\ load_failed =>
          /\ ~is_none
          /\ products_df = <<>>
          /\ interactions_df = <<>>
          /\ op \in RankingOps \cup {"get_statistics"} => raised = ""
          /\ op \in RankingOps => result = <<>>
          /\ op = "get_statistics" =>
                /\ stats.total_products = 0
                /\ stats.total_users = 0
                /\ stats.total_interactions = 0
                /\ stats.total_purchases = 0
                /\ stats.categories = <<>>
                /\ stats.avg_rating[1] = 0
                /\ stats.price_range.min = 0
                /\ stats.price_range.max = 0
                /\ stats.price_range.avg[1] = 0

\* a ranking operation answered after a failed load
C9_Witness ==
    /\ pc = "ready"
    /\ load_failed
    /\ op = "hybrid_recommendations"
    /\ arg_n > 0

\* C10: the similar users of the target are the (up to) five other users of
\* the matrix with the highest similarity, highest first, equal
\* similarities in ascending user id
C10_NeighborsAreTopFive ==
    Ranked =>
        locals.similar_users =
            FirstN(StableSortDescending(
                      Ascending(DOMAIN locals.similarity \ {arg_user}),
                      locals.similarity), 5)

\* the last purchase of product p by user u in the order of the log
LastPurchase(pd, u, p) ==
    pd[CHOOSE i \in PairRows(pd, u, p) : \A j \in PairRows(pd, u, p) : j <= i]

\* C11: every cell of the user-item matrix is 0 for a pair without a
\* purchase and else the rating of the last purchase of the pair in the
\* order of the log (both sides on the common denominator of the matrix)
C11_LastPurchaseWins ==
    (Returned("collaborative_filtering")
       /\ Len(PurchaseData(interactions_df)) > 0) =>
        LET pd == PurchaseData(interactions_df)
        IN  \A u \in MatrixIndex(pd), p \in MatrixColumns(pd) :
               locals.user_product_matrix[u][p] =
                  IF PairRows(pd, u, p) = {} THEN 0
                  ELSE LastPurchase(pd, u, p).rating * CellDenominator(pd)

\* the operations of C12
QueryOps ==
    RankingOps \cup {"get_user_history", "get_product_details", "get_statistics"}

\* C12: after a successful load no query operation changes the rows or the
\* columns of products_df, or interactions_df
C12_QueriesReadOnly ==
    [][(pc = "ready" /\ ~load_failed /\ op' \in QueryOps)
         => /\ products_df' = products_df
            /\ products_columns' = products_columns
            /\ interactions_df' = interactions_df]_vars

====
